---- MODULE Spec2Model ----
(***************************************************************************)
(* Bootstrapped DQN (pearl/policy_learners/sequential_decision_making/     *)
(* bootstrapped_dqn.py): the learner's state, learn_batch, act and reset.  *)
(*                                                                         *)
(* Q-networks are tables: net[z][s][a] is member z's estimate for action a *)
(* in state s, an integer.  Values that the code multiplies by the         *)
(* discount factor are kept as exact fractions: Bellman targets and errors *)
(* are counted in units of 1/DiscountDen, losses in units of               *)
(* 1/(DiscountDen^2 * LossDen).                                            *)
(***************************************************************************)
EXTENDS Integers, Sequences, FiniteSets, TLC

\* ------------------------------------------------------------ bounds ----
EnsembleSize == 2
MaxBatch == 2
MaxSteps == 2
MaxTrainingSteps == 3
MaxFreq == 2

\* ------------------------------------------------- program constants ----
DiscountNum == 99
DiscountDen == 100
TauNum == 1
TauDen == 1
NegInf == -1000000
NaN == -1

Members == 0 .. (EnsembleSize - 1)
States == {0, 1}
Actions == {0, 1, 2}
\* the padded action tensor: one slot per action of the action space
ActionSlots == <<0, 1, 2>>

MaskedType == "TransitionWithBootstrapMaskBatch"
PlainType == "TransitionBatch"

\* ------------------------------------------------------------ tensors ----
RECURSIVE SumSeq(_)
SumSeq(x) == IF x = <<>> THEN 0 ELSE Head(x) + SumSeq(Tail(x))

RECURSIVE Factorial(_)
Factorial(n) == IF n <= 1 THEN 1 ELSE n * Factorial(n - 1)

Sign(g) == IF g > 0 THEN 1 ELSE IF g < 0 THEN -1 ELSE 0

Float(b) == IF b THEN 1 ELSE 0

\* torch.argmax / Tensor.max(1)[1]: the index of the first maximal value
ArgMax(values) ==
    CHOOSE j \in 1 .. Len(values) :
        /\ \A k \in 1 .. Len(values) : values[k] <= values[j]
        /\ \A k \in 1 .. (j - 1) : values[k] < values[j]

\* ------------------------------------------------------ replay buffer ----
Transition(s, a, r, ns, t, u) ==
    [state |-> s, action |-> a, reward |-> r, next_state |-> ns,
     terminated |-> t, next_unavailable_actions_mask |-> u]

\* the transitions the replay buffer holds; the fourth leaves one next
\* action available, the third is terminal
Buffer ==
    << Transition(0, 0, 1, 1, FALSE, <<FALSE, FALSE, FALSE>>),
       Transition(0, 2, 0, 1, FALSE, <<FALSE, FALSE, TRUE>>),
       Transition(1, 1, 1, 0, TRUE, <<FALSE, TRUE, FALSE>>),
       Transition(1, 0, 0, 0, FALSE, <<TRUE, FALSE, TRUE>>) >>

\* a batch: one column per field; `missing` names the optional fields that
\* are None (their columns are then empty)
OptionalFields ==
    {"next_state", "next_available_actions", "next_unavailable_actions_mask",
     "bootstrap_mask"}

IsNone(batch, f) == f \in batch.missing

Column(idx, f, missing) ==
    IF f \in missing THEN <<>>
    ELSE [i \in 1 .. Len(idx) |->
            IF f = "next_available_actions" THEN ActionSlots ELSE Buffer[idx[i]][f]]

MakeBatch(type, idx, mask, missing) ==
    [type |-> type,
     state |-> Column(idx, "state", missing),
     action |-> Column(idx, "action", missing),
     reward |-> Column(idx, "reward", missing),
     next_state |-> Column(idx, "next_state", missing),
     terminated |-> Column(idx, "terminated", missing),
     next_available_actions |-> Column(idx, "next_available_actions", missing),
     next_unavailable_actions_mask |->
         Column(idx, "next_unavailable_actions_mask", missing),
     bootstrap_mask |-> IF "bootstrap_mask" \in missing THEN <<>> ELSE mask,
     missing |-> missing]

\* one row of a bootstrap mask: 1 for the members of s
Row(s) == [z \in Members |-> IF z \in s THEN 1 ELSE 0]

EmptyBatch == MakeBatch(PlainType, <<>>, <<>>, {"bootstrap_mask"})

\* ------------------------------------------------- ensemble network ----
\* the networks a learner is constructed with: member z, state s and
\* action a get distinct values, rotated by `seed`
InitNet(seed) ==
    [z \in Members |-> [s \in States |-> [a \in Actions |->
        (seed + z + s + 2 * a) % 3]]]

InitNets == {InitNet(seed) : seed \in 0 .. 2}

\* EnsembleQValueNetwork.get_q_values on a batch of taken actions:
\* member z's Q(state_i, action_i)
get_q_values(net, state_batch, action_batch, z) ==
    [i \in 1 .. Len(state_batch) |-> net[z][state_batch[i]][action_batch[i]]]

\* EnsembleQValueNetwork.get_q_values on a batch of stacked actions:
\* member z's Q(state_i, a) for every slot a of row i
get_q_values_stacked(net, state_batch, action_batch, z) ==
    [i \in 1 .. Len(state_batch) |->
        [j \in 1 .. Len(action_batch[i]) |-> net[z][state_batch[i]][action_batch[i][j]]]]

\* update_target_network: Polyak averaging, tau = TauNum / TauDen
update_target_network(target_net, source_net, tau_num, tau_den) ==
    [z \in Members |-> [s \in States |-> [a \in Actions |->
        (tau_num * source_net[z][s][a] + (tau_den - tau_num) * target_net[z][s][a])
            \div tau_den]]]

\* ------------------------------------------- filter by bootstrap mask ----
RECURSIVE SelectRows(_, _, _, _)
SelectRows(x, mask, z, i) ==
    IF i > Len(x) THEN <<>>
    ELSE (IF mask[i][z] = 1 THEN <<x[i]>> ELSE <<>>) \o SelectRows(x, mask, z, i + 1)

\* _filter_tensor: None stays None, otherwise the rows with mask[:, z] == 1
FilterTensor(batch, f, z) ==
    IF IsNone(batch, f) \/ IsNone(batch, "bootstrap_mask") THEN <<>>
    ELSE SelectRows(batch[f], batch.bootstrap_mask, z, 1)

filter_batch_by_bootstrap_mask(batch, z) ==
    [type |-> PlainType,
     state |-> FilterTensor(batch, "state", z),
     action |-> FilterTensor(batch, "action", z),
     reward |-> FilterTensor(batch, "reward", z),
     next_state |-> FilterTensor(batch, "next_state", z),
     terminated |-> FilterTensor(batch, "terminated", z),
     next_available_actions |-> FilterTensor(batch, "next_available_actions", z),
     next_unavailable_actions_mask |->
         FilterTensor(batch, "next_unavailable_actions_mask", z),
     bootstrap_mask |-> <<>>,
     missing |-> batch.missing \cup {"bootstrap_mask"}]

\* ---------------------------------------------------- Bellman target ----
\* mutant: the assertion on next_unavailable_actions_mask is left out
NextStateAssertsNoMask(batch) ==
    /\ ~IsNone(batch, "next_state")
    /\ ~IsNone(batch, "next_available_actions")

\* the assertions of _get_next_state_values
NextStateAsserts(batch) ==
    /\ ~IsNone(batch, "next_state")
    /\ ~IsNone(batch, "next_available_actions")
    /\ ~IsNone(batch, "next_unavailable_actions_mask")

\* mutant: the Q-values of unavailable actions are left as they are
MaskNothing(values, batch) == values

\* next_state_action_values[mask] = -inf; indexing with None selects all
MaskUnavailable(values, batch) ==
    [i \in 1 .. Len(values) |-> [j \in 1 .. Len(values[i]) |->
        IF IsNone(batch, "next_unavailable_actions_mask")
        THEN NegInf
        ELSE IF batch.next_unavailable_actions_mask[i][j] THEN NegInf
             ELSE values[i][j]]]

_get_next_state_values(self, batch, batch_size, z) ==
    LET next_state_action_values ==
            get_q_values_stacked(self.Q, batch.next_state,
                                 batch.next_available_actions, z)
        target_next_state_action_values ==
            get_q_values_stacked(self.Q_target, batch.next_state,
                                 batch.next_available_actions, z)
        masked == MaskUnavailable(next_state_action_values, batch)
        argmax_actions == [i \in 1 .. batch_size |-> ArgMax(masked[i])]
    IN  [i \in 1 .. batch_size |->
            target_next_state_action_values[i][argmax_actions[i]]]

\* ------------------------------------------------------------- loss ----
LossDen == Factorial(IF MaxBatch > Len(Buffer) THEN MaxBatch ELSE Len(Buffer))

\* torch.nn.MSELoss(): the mean of the squared differences (nan over no
\* elements), in units of 1/(DiscountDen^2 * LossDen)
MSELoss(input, target) ==
    IF Len(input) = 0 THEN NaN
    ELSE (SumSeq([i \in 1 .. Len(input) |->
                    (input[i] * DiscountDen - target[i])
                        * (input[i] * DiscountDen - target[i])])
            * LossDen) \div Len(input)

\* mutant: the loss of a member replaces the accumulated loss
OverwriteLoss(loss_ensemble, loss) == loss

\* loss_ensemble += loss
AddLoss(loss_ensemble, loss) ==
    IF loss_ensemble = NaN \/ loss = NaN THEN NaN ELSE loss_ensemble + loss

\* mutant: only a missing mask skips a member
MemberSkippedNoMask(batch, z) == IsNone(batch, "bootstrap_mask")

\* `mask is None or mask[:, z].sum() == 0`
MemberSkipped(batch, z) ==
    \/ IsNone(batch, "bootstrap_mask")
    \/ SumSeq([i \in 1 .. Len(batch.bootstrap_mask) |-> batch.bootstrap_mask[i][z]]) = 0

\* r + gamma * V(s), in units of 1/DiscountDen
ExpectedStateActionValues(self, batch_filtered, z) ==
    LET next_values ==
            _get_next_state_values(self, batch_filtered, Len(batch_filtered.state), z)
    IN  [i \in 1 .. Len(batch_filtered.state) |->
            next_values[i] * DiscountNum * (1 - Float(batch_filtered.terminated[i]))
                + batch_filtered.reward[i] * DiscountDen]

\* what the loop body leaves for member z
NoMember ==
    [ran |-> FALSE, failed |-> FALSE, batch_filtered |-> EmptyBatch,
     state_action_values |-> <<>>, expected |-> <<>>, loss |-> 0]

\* member z's loss, once its values and targets are computed
MemberLoss(batch_filtered, state_action_values, expected) ==
    [ran |-> TRUE, failed |-> FALSE, batch_filtered |-> batch_filtered,
     state_action_values |-> state_action_values, expected |-> expected,
     loss |-> MSELoss(state_action_values, expected)]

\* the loop body for a member with a non-empty sub-batch: the online
\* Q-values of the taken actions, then the Bellman target, whose
\* assertions may fail
MemberBody(self, batch_filtered, z) ==
    IF ~NextStateAsserts(batch_filtered)
    THEN [NoMember EXCEPT !.ran = TRUE, !.failed = TRUE,
                          !.batch_filtered = batch_filtered,
                          !.state_action_values =
                              get_q_values(self.Q, batch_filtered.state,
                                           batch_filtered.action, z)]
    ELSE MemberLoss(batch_filtered,
                    get_q_values(self.Q, batch_filtered.state,
                                 batch_filtered.action, z),
                    ExpectedStateActionValues(self, batch_filtered, z))

MemberStep(self, batch, z) ==
    IF MemberSkipped(batch, z) THEN NoMember
    ELSE MemberBody(self, filter_batch_by_bootstrap_mask(batch, z), z)

\* the accumulator after member z's turn
Accumulate(acc, z, m) ==
    [loss_ensemble |-> IF m.ran /\ ~m.failed
                       THEN AddLoss(acc.loss_ensemble, m.loss)
                       ELSE acc.loss_ensemble,
     members |-> [acc.members EXCEPT ![z] = m],
     failed |-> m.failed]

\* the loop over the members: stops at the first failed assertion
RECURSIVE MemberLoop(_, _, _, _)
MemberLoop(self, batch, z, acc) ==
    IF z >= EnsembleSize \/ acc.failed THEN acc
    ELSE MemberLoop(self, batch, z + 1, Accumulate(acc, z, MemberStep(self, batch, z)))

LoopStart ==
    [loss_ensemble |-> 0, members |-> [z \in Members |-> NoMember], failed |-> FALSE]

\* ---------------------------------------------------------- learner ----
VARIABLES Q, Q_target, optimizer, training_steps, target_update_freq,
          active_z, last

vars == <<Q, Q_target, optimizer, training_steps, target_update_freq,
          active_z, last>>

\* the learner object the methods work on
Self ==
    [Q |-> Q, Q_target |-> Q_target, optimizer |-> optimizer,
     training_steps |-> training_steps, target_update_freq |-> target_update_freq]

\* mutant: any transition batch passes the type check
IsAnyBatch(batch) == batch.type \in {MaskedType, PlainType}

\* isinstance(batch, TransitionWithBootstrapMaskBatch)
IsBootstrapBatch(batch) == batch.type = MaskedType

\* loss_ensemble.backward(): the gradient of the summed loss with respect
\* to each table entry, up to the positive factor 2 / (n * DiscountDen)
Backward(acc) ==
    [z \in Members |-> [s \in States |-> [a \in Actions |->
        LET m == acc.members[z]
        IN  IF ~m.ran THEN 0
            ELSE SumSeq([i \in 1 .. Len(m.expected) |->
                    IF m.batch_filtered.state[i] = s /\ m.batch_filtered.action[i] = a
                    THEN m.state_action_values[i] * DiscountDen - m.expected[i]
                    ELSE 0])]]]

\* optimizer.step(): every parameter moves one unit against the sign of its
\* gradient; a parameter without gradient stays
OptimizerStep(net, grad) ==
    [z \in Members |-> [s \in States |-> [a \in Actions |->
        net[z][s][a] - Sign(grad[z][s][a])]]]

\* mutant: one backward pass and one optimizer step per trained member
OptimizeModelPerMember(self, acc) ==
    IF \A z \in Members : ~acc.members[z].ran
    THEN [self |-> self, ops |-> <<"zero_grad">>, raised |-> TRUE]
    ELSE [self |-> [self EXCEPT !.Q = OptimizerStep(self.Q, Backward(acc)),
                                !.optimizer =
                                    [steps |-> self.optimizer.steps
                                        + Cardinality({z \in Members : acc.members[z].ran})]],
          ops |-> IF Cardinality({z \in Members : acc.members[z].ran}) = 1
                  THEN <<"zero_grad", "backward", "step">>
                  ELSE <<"zero_grad", "backward", "step", "backward", "step">>,
          raised |-> FALSE]

\* mutant: the target network shares the online network's parameters
OptimizeModelAliased(self, acc) ==
    IF \A z \in Members : ~acc.members[z].ran
    THEN [self |-> self, ops |-> <<"zero_grad">>, raised |-> TRUE]
    ELSE [self |-> [self EXCEPT !.Q = OptimizerStep(self.Q, Backward(acc)),
                                !.Q_target = OptimizerStep(self.Q, Backward(acc)),
                                !.optimizer = [steps |-> self.optimizer.steps + 1]],
          ops |-> <<"zero_grad", "backward", "step">>,
          raised |-> FALSE]

\* "Optimize the model": zero_grad, backward, step.  A loss no member
\* contributed to has no grad_fn, and backward raises
OptimizeModel(self, acc) ==
    IF \A z \in Members : ~acc.members[z].ran
    THEN [self |-> self, ops |-> <<"zero_grad">>, raised |-> TRUE]
    ELSE [self |-> [self EXCEPT !.Q = OptimizerStep(self.Q, Backward(acc)),
                                !.optimizer = [steps |-> self.optimizer.steps + 1]],
          ops |-> <<"zero_grad", "backward", "step">>,
          raised |-> FALSE]

\* mutant: the counter itself is compared
TargetUpdateDueAtCounter(steps, freq) == steps % freq = 0

\* (self._training_steps + 1) % self._target_update_freq == 0
TargetUpdateDue(steps, freq) == (steps + 1) % freq = 0

\* mutant: learn_batch counts the step itself, then compares the counter
TargetNetworkUpdateCounting(self, ops) ==
    IF (self.training_steps + 1) % self.target_update_freq = 0
    THEN [self |-> [self EXCEPT !.training_steps = self.training_steps + 1,
                                !.Q_target =
                        update_target_network(self.Q_target, self.Q, TauNum, TauDen)],
          ops |-> Append(ops, "update_target_network")]
    ELSE [self |-> [self EXCEPT !.training_steps = self.training_steps + 1],
          ops |-> ops]

\* "Target Network Update"
TargetNetworkUpdate(self, ops) ==
    IF TargetUpdateDue(self.training_steps, self.target_update_freq)
    THEN [self |-> [self EXCEPT !.Q_target =
                        update_target_network(self.Q_target, self.Q, TauNum, TauDen)],
          ops |-> Append(ops, "update_target_network")]
    ELSE [self |-> self, ops |-> ops]

\* the names the TypeError message gives: the learner's class, the
\* required batch type and the type it got
TypeErrorMessage(batch) == <<"BootstrappedDQN", MaskedType, batch.type>>

Result(self, outcome, ops, acc) ==
    [self |-> self, outcome |-> outcome, ops |-> ops, message |-> <<>>,
     loss |-> IF outcome = "ok" THEN acc.loss_ensemble ELSE 0,
     members |-> acc.members]

\* learn_batch from "Target Network Update" on
AfterOptimize(opt, acc) ==
    IF opt.raised
    THEN Result(opt.self, "RuntimeError", opt.ops, acc)
    ELSE Result(TargetNetworkUpdate(opt.self, opt.ops).self, "ok",
                TargetNetworkUpdate(opt.self, opt.ops).ops, acc)

\* learn_batch from "Optimize the model" on
AfterLoop(self, acc) ==
    IF acc.failed
    THEN Result(self, "AssertionError", <<>>, acc)
    ELSE AfterOptimize(OptimizeModel(self, acc), acc)

learn_batch(self, batch) ==
    IF ~IsBootstrapBatch(batch)
    THEN [Result(self, "TypeError", <<>>, LoopStart)
             EXCEPT !.message = TypeErrorMessage(batch)]
    ELSE AfterLoop(self, MemberLoop(self, batch, 0, LoopStart))

\* mutant: the argmax index is looked up in the whole action space
GreedyActionOfSpace(net, z, subjective_state, available) ==
    ActionSlots[ArgMax(get_q_values_stacked(net, <<subjective_state>>,
                                            <<available>>, z)[1])]

\* the greedy action of act: the argmax over the active member's Q-values
\* of the available actions
GreedyAction(net, z, subjective_state, available) ==
    LET q_values == get_q_values_stacked(net, <<subjective_state>>, <<available>>, z)[1]
        exploit_action_index == ArgMax(q_values)
    IN  available[exploit_action_index]

\* DeepExploration.act: some action of the action space
ExplorationAct(available, exploit_action) ==
    {available[j] : j \in 1 .. Len(available)}

\* ------------------------------------------------------------ inputs ----
\* what `last` holds when the last call was not the one a field is about
NoCall ==
    [op |-> "init", batch |-> EmptyBatch, outcome |-> "ok", ops |-> <<>>,
     message |-> <<>>, loss |-> 0, members |-> LoopStart.members,
     state |-> 0, available |-> <<>>, exploit |-> FALSE, explored |-> FALSE,
     action |-> 0]

\* the batch of the end-to-end scenario: four transitions, member 0 on
\* {1, 2, 4}, member 1 on {2, 3, 4}
ScenarioMask == <<Row({0}), Row({0, 1}), Row({1}), Row({0, 1})>>

ScenarioBatch == MakeBatch(MaskedType, <<1, 2, 3, 4>>, ScenarioMask, {})

\* the batches the training loop replays
ReplayBatches ==
    { ScenarioBatch,
      MakeBatch(MaskedType, <<2, 4>>, <<Row({0}), Row({0})>>, {}),
      MakeBatch(MaskedType, <<1, 3>>, <<Row({}), Row({})>>, {}),
      MakeBatch(MaskedType, <<1, 2, 3, 4>>, ScenarioMask, {"next_state"}),
      MakeBatch(PlainType, <<1, 2, 3, 4>>, <<>>, {"bootstrap_mask"}) }

\* index sequences into the buffer, in increasing order
Samples ==
    {idx \in UNION {[1 .. n -> 1 .. Len(Buffer)] : n \in 0 .. MaxBatch} :
        \A i \in 1 .. (Len(idx) - 1) : idx[i] < idx[i + 1]}

MasksFor(idx) == [1 .. Len(idx) -> [Members -> {0, 1}]]

\* every bootstrap-masked batch of at most MaxBatch buffered transitions,
\* complete or with one optional field missing
SampledBatches ==
    {MakeBatch(MaskedType, c[1], c[2], c[3]) :
        c \in UNION {{<<idx, mask, missing>> :
                        mask \in MasksFor(idx),
                        missing \in {{}} \cup {{f} : f \in OptionalFields}} :
                     idx \in Samples}}

\* the available action spaces: the non-empty lists of distinct actions
AvailableSpaces ==
    {av \in UNION {[1 .. n -> Actions] : n \in 1 .. Cardinality(Actions)} :
        \A i, j \in 1 .. Len(av) : i # j => av[i] # av[j]}

\* ----------------------------------------------------------- actions ----
\* __init__: the target network is a deep copy of the online network
Init ==
    /\ Q \in InitNets
    /\ Q_target = Q
    /\ optimizer = [steps |-> 0]
    /\ training_steps = 0
    /\ target_update_freq \in 1 .. MaxFreq
    /\ active_z \in Members
    /\ last = NoCall

\* the learner and the record of the call, after learn_batch returned r
Returned(r, batch) ==
    /\ Q' = r.self.Q
    /\ Q_target' = r.self.Q_target
    /\ optimizer' = r.self.optimizer
    /\ training_steps' = r.self.training_steps
    /\ target_update_freq' = r.self.target_update_freq
    /\ last' = [NoCall EXCEPT !.op = "learn_batch", !.batch = batch,
                              !.outcome = r.outcome, !.ops = r.ops,
                              !.message = r.message,
                              !.loss = r.loss, !.members = r.members]

LearnBatch(batch) ==
    /\ optimizer.steps < MaxSteps
    /\ Returned(learn_batch(Self, batch), batch)
    /\ UNCHANGED active_z

\* PolicyLearner.learn counts the training steps
TrainingStep ==
    /\ training_steps < MaxTrainingSteps
    /\ training_steps' = training_steps + 1
    /\ last' = [NoCall EXCEPT !.op = "training_step"]
    /\ UNCHANGED <<Q, Q_target, optimizer, target_update_freq, active_z>>

Act(subjective_state, available, exploit) ==
    LET exploit_action == GreedyAction(Q, active_z, subjective_state, available)
    IN  /\ \E action \in (IF exploit THEN {exploit_action}
                          ELSE ExplorationAct(available, exploit_action)) :
              last' = [NoCall EXCEPT !.op = "act", !.state = subjective_state,
                                     !.available = available, !.exploit = exploit,
                                     !.explored = ~exploit, !.action = action]
        /\ UNCHANGED <<Q, Q_target, optimizer, training_steps, target_update_freq,
                       active_z>>

\* reset: DeepExploration.reset resamples the active member
Reset ==
    /\ \E z \in Members : active_z' = z
    /\ last' = [NoCall EXCEPT !.op = "reset"]
    /\ UNCHANGED <<Q, Q_target, optimizer, training_steps, target_update_freq>>

\* the action spaces an episode offers: all actions, or two of them
EpisodeSpaces == {ActionSlots, <<2, 0>>}

Next ==
    \/ \E batch \in ReplayBatches : LearnBatch(batch)
    \/ TrainingStep
    \/ \E s \in States, av \in EpisodeSpaces, e \in BOOLEAN : Act(s, av, e)
    \/ Reset

Spec == Init /\ [][Next]_vars

\* one learn_batch call of a learner in training, on any sampled batch
InitTrained ==
    /\ Q \in InitNets
    /\ Q_target \in InitNets
    /\ optimizer = [steps |-> 0]
    /\ training_steps = 0
    /\ target_update_freq \in 1 .. MaxFreq
    /\ active_z = 0
    /\ last = NoCall

NextBatch ==
    /\ last.op = "init"
    /\ \E batch \in SampledBatches \cup {ScenarioBatch} : LearnBatch(batch)

SpecBatch == InitTrained /\ [][NextBatch]_vars

\* act on any available action space, before and after training
NextAct ==
    /\ last.op # "act"
    /\ \/ \E batch \in ReplayBatches : LearnBatch(batch)
       \/ Reset
       \/ \E s \in States, av \in AvailableSpaces, e \in BOOLEAN : Act(s, av, e)

SpecAct == Init /\ [][NextAct]_vars

\* ------------------------------------------------------- properties ----
Range(x) == {x[i] : i \in 1 .. Len(x)}

\* the rows of x at the indices of I, in increasing order of index
Sub(x, I) ==
    LET f == CHOOSE g \in [1 .. Cardinality(I) -> I] :
                 \A i, j \in 1 .. Cardinality(I) : i < j => g[i] < g[j]
    IN  [k \in 1 .. Cardinality(I) |-> x[f[k]]]

\* the transitions of a batch that its bootstrap mask gives to member z
Selected(batch, z) ==
    IF IsNone(batch, "bootstrap_mask") THEN {}
    ELSE {i \in 1 .. Len(batch.bootstrap_mask) : batch.bootstrap_mask[i][z] = 1}

LearnerUnchanged ==
    /\ Q' = Q
    /\ Q_target' = Q_target
    /\ optimizer' = optimizer
    /\ training_steps' = training_steps

Succeeded(call) == call.op = "learn_batch" /\ call.outcome = "ok"

TargetUpdated(call) == "update_target_network" \in Range(call.ops)

\* C1: learn_batch on a batch that is not a TransitionWithBootstrapMaskBatch
\* raises a TypeError that names the required type, before any of
\* zero_grad, backward, optimizer step or target update, and leaves the
\* online network, the target network, the optimizer state and the step
\* counter as they were.
C1_TypeErrorLeavesLearner ==
    [][(last'.op = "learn_batch" /\ last'.batch.type # MaskedType)
          => (/\ last'.outcome = "TypeError"
              /\ MaskedType \in Range(last'.message)
              /\ last'.ops = <<>>
              /\ LearnerUnchanged)]_vars

C1_Witness ==
    /\ last.op = "learn_batch"
    /\ last.batch.type = PlainType
    /\ Len(last.batch.state) = 4
    /\ last.outcome = "TypeError"
    /\ optimizer.steps = 1

\* C2 as stated: the target network is updated in a successful call iff the
\* step counter after the call is a multiple of target_update_freq, and is
\* left unchanged otherwise.
C2_UpdateIffCounterAfterCall ==
    [][Succeeded(last')
          => (/\ TargetUpdated(last') <=> (training_steps' % target_update_freq' = 0)
              /\ ~TargetUpdated(last') => Q_target' = Q_target)]_vars

\* C2 amended: the target network is Polyak-updated from the online
\* network in a successful call iff the step counter at the call plus one
\* is a multiple of target_update_freq (the call does not change the
\* counter), and is left unchanged otherwise.
C2_UpdateIffCounterPlusOne ==
    [][Succeeded(last')
          => (/\ TargetUpdated(last')
                    <=> ((training_steps + 1) % target_update_freq = 0)
              /\ TargetUpdated(last')
                    => Q_target' = update_target_network(Q_target, Q', TauNum, TauDen)
              /\ ~TargetUpdated(last') => Q_target' = Q_target)]_vars

C2_Witness ==
    /\ Succeeded(last)
    /\ TargetUpdated(last)
    /\ target_update_freq = 2
    /\ training_steps = 1
    /\ optimizer.steps = 2
    /\ Q_target = Q

\* C3 as stated: a successful learn_batch call increments the training-step
\* counter by one.
C3_CallIncrementsCounter ==
    [][Succeeded(last') => training_steps' = training_steps + 1]_vars

\* C3 amended: a successful learn_batch call leaves the training-step
\* counter as it was; it only reads it to schedule the target update, and
\* n consecutive calls leave it unchanged.
C3_CallKeepsCounter ==
    [][last'.op = "learn_batch" => training_steps' = training_steps]_vars

C3_Witness ==
    /\ Succeeded(last)
    /\ optimizer.steps = 2
    /\ training_steps = 0

\* C4: a successful learn_batch call performs one zero_grad, then one
\* backward, then one optimizer step, then at most the target update,
\* whatever the number of members with a non-empty sub-batch.
C4_OneOptimizerStep ==
    [][Succeeded(last')
          => (/\ last'.ops \in {<<"zero_grad", "backward", "step">>,
                                <<"zero_grad", "backward", "step",
                                  "update_target_network">>}
              /\ optimizer'.steps = optimizer.steps + 1)]_vars

C4_Witness ==
    /\ Succeeded(last)
    /\ \A z \in {0, 1} : last.members[z].ran
    /\ last.ops = <<"zero_grad", "backward", "step">>
    /\ optimizer.steps = 1

\* the mean squared error of member z of a call, in units of
\* 1/(DiscountDen^2 * LossDen)
MeanSquaredError(m) ==
    (SumSeq([i \in 1 .. Len(m.expected) |->
                (m.state_action_values[i] * DiscountDen - m.expected[i])
                    * (m.state_action_values[i] * DiscountDen - m.expected[i])])
        * LossDen) \div Len(m.expected)

RECURSIVE SumOver(_, _)
SumOver(f, S) ==
    IF S = {} THEN 0
    ELSE LET z == CHOOSE x \in S : TRUE IN f[z] + SumOver(f, S \ {z})

\* C5: member z is trained on exactly the transitions whose bootstrap_mask
\* column z is set, in their order in the batch, with every field kept; its
\* Q estimates are the online member's for the taken actions; and the loss
\* returned is the sum of the mean squared errors of the members with a
\* non-empty sub-batch.
C5_RoutingAndLoss ==
    [][Succeeded(last')
          => (/\ \A z \in Members :
                    LET m == last'.members[z]
                        I == Selected(last'.batch, z)
                    IN  /\ m.ran <=> I # {}
                        /\ m.ran =>
                            /\ m.batch_filtered.state = Sub(last'.batch.state, I)
                            /\ m.batch_filtered.action = Sub(last'.batch.action, I)
                            /\ m.batch_filtered.reward = Sub(last'.batch.reward, I)
                            /\ m.batch_filtered.next_state
                                   = Sub(last'.batch.next_state, I)
                            /\ m.batch_filtered.terminated
                                   = Sub(last'.batch.terminated, I)
                            /\ m.batch_filtered.next_available_actions
                                   = Sub(last'.batch.next_available_actions, I)
                            /\ m.batch_filtered.next_unavailable_actions_mask
                                   = Sub(last'.batch.next_unavailable_actions_mask, I)
                            /\ m.state_action_values
                                   = [k \in 1 .. Cardinality(I) |->
                                         Q[z][m.batch_filtered.state[k]]
                                             [m.batch_filtered.action[k]]]
              /\ last'.loss =
                    SumOver([z \in Members |-> MeanSquaredError(last'.members[z])],
                            {z \in Members : Selected(last'.batch, z) # {}}))]_vars

C5_Witness ==
    /\ Succeeded(last)
    /\ last.batch = ScenarioBatch
    /\ last.members[0].batch_filtered.action = <<0, 2, 0>>
    /\ last.members[1].batch_filtered.action = <<2, 1, 0>>
    /\ last.members[0].loss > 0
    /\ last.members[1].loss > 0
    /\ last.loss = last.members[0].loss + last.members[1].loss

\* C6: a member whose bootstrap_mask column is all zero is skipped: no
\* network is evaluated for it, it adds nothing to the loss, and its
\* parameters are as before the call.
C6_EmptyMemberSkipped ==
    [][(last'.op = "learn_batch" /\ last'.batch.type = MaskedType)
          => \A z \in Members :
                Selected(last'.batch, z) = {}
                    => (/\ ~last'.members[z].ran
                        /\ last'.members[z].state_action_values = <<>>
                        /\ last'.members[z].expected = <<>>
                        /\ last'.members[z].loss = 0
                        /\ Succeeded(last')
                              => last'.loss =
                                     SumOver([y \in Members |-> last'.members[y].loss],
                                             Members \ {z})
                        /\ Q'[z] = Q[z])]_vars

C6_Witness ==
    /\ Succeeded(last)
    /\ ~IsNone(last.batch, "bootstrap_mask")
    /\ Len(last.batch.state) = 2
    /\ Selected(last.batch, 1) = {}
    /\ last.members[0].ran
    /\ last.loss > 0
    /\ Q[0] # Q_target[0]
    /\ Q[1] = InitNet(0)[1]

\* the available next actions of row i of a sub-batch
AvailableNext(b, i) ==
    {j \in 1 .. Len(b.next_available_actions[i]) :
        ~b.next_unavailable_actions_mask[i][j]}

\* the slot the online member z prefers among the available ones (the
\* first of the best)
BestAvailable(net, z, b, i) ==
    CHOOSE j \in AvailableNext(b, i) :
        /\ \A k \in AvailableNext(b, i) :
              net[z][b.next_state[i]][b.next_available_actions[i][k]]
                  <= net[z][b.next_state[i]][b.next_available_actions[i][j]]
        /\ \A k \in AvailableNext(b, i) :
              k < j => net[z][b.next_state[i]][b.next_available_actions[i][k]]
                          < net[z][b.next_state[i]][b.next_available_actions[i][j]]

C8_ExploitIsGreedy ==
    [][(last'.op = "act" /\ last'.exploit)
          => (/\ last'.action \in Range(last'.available)
              /\ \A j \in 1 .. Len(last'.available) :
                    /\ Q[active_z][last'.state][last'.available[j]]
                           <= Q[active_z][last'.state][last'.action]
                    /\ Q[active_z][last'.state][last'.available[j]]
                           = Q[active_z][last'.state][last'.action]
                         => \E k \in 1 .. j : last'.available[k] = last'.action
              /\ ~last'.explored
              /\ LearnerUnchanged
              /\ active_z' = active_z)]_vars

C8_Witness ==
    /\ last.op = "act"
    /\ last.exploit
    /\ last.available = <<2, 0>>
    /\ last.action = 0
    /\ optimizer.steps = 1

\* C9: the target network equals the online network at construction, and
\* whenever its parameters change, the step is a successful learn_batch
\* call that performed the scheduled target update, which sets them to the
\* Polyak average with the online network; nothing else (optimizer step,
\* act, reset) changes them.
C9_TargetOnlyByUpdate ==
    /\ Q_target = Q
    /\ [][Q_target' # Q_target
             => (/\ Succeeded(last')
                 /\ TargetUpdated(last')
                 /\ Q_target' = update_target_network(Q_target, Q', TauNum, TauDen))]_vars

C9_Witness ==
    /\ last.op = "act"
    /\ optimizer.steps = 2
    /\ Q_target \in InitNets
    /\ \A z \in {0, 1} : Q[z] # Q_target[z]

\* the first member with a non-empty sub-batch
FirstTrained(batch) ==
    CHOOSE z \in Members :
        /\ Selected(batch, z) # {}
        /\ \A y \in Members : y < z => Selected(batch, y) = {}

\* C10: on a bootstrap-masked batch with a non-empty member sub-batch that
\* lacks next_state, next_available_actions or
\* next_unavailable_actions_mask, learn_batch fails with an assertion error
\* at the first member with a non-empty sub-batch, before zero_grad, the
\* optimizer step and the target update, whatever the terminated flags;
\* the networks and the optimizer are unchanged.
C10_MissingNextFieldsAssert ==
    [][(/\ last'.op = "learn_batch"
        /\ last'.batch.type = MaskedType
        /\ \E z \in Members : Selected(last'.batch, z) # {}
        /\ last'.batch.missing \cap {"next_state", "next_available_actions",
                                     "next_unavailable_actions_mask"} # {})
          => (/\ last'.outcome = "AssertionError"
              /\ last'.ops = <<>>
              /\ LearnerUnchanged
              /\ last'.members[FirstTrained(last'.batch)].failed
              /\ \A z \in Members \ {FirstTrained(last'.batch)} :
                    ~last'.members[z].ran)]_vars

C10_Witness ==
    /\ last.op = "learn_batch"
    /\ last.outcome = "AssertionError"
    /\ IsNone(last.batch, "next_state")
    /\ last.batch.terminated = <<TRUE>>
    /\ ~last.members[0].ran
    /\ last.members[1].failed

====
